---- MODULE Spec2Model ----
(***************************************************************************)
(* erfdb: a Map-based key-value store (MemoryDriver and its persistent     *)
(* subclasses JsonDriver / BsonDriver / YamlDriver) and the path utility   *)
(* (utils/Lodash: set / get / merge) that maps flat keys to a nested tree. *)
(*                                                                         *)
(* Strings of the program are sequences of one-character strings, so that  *)
(* split, indexOf, substring, replace and Number act on them as in the     *)
(* code.  JavaScript values are tagged records (see Undef .. Arr).         *)
(***************************************************************************)
EXTENDS Integers, Sequences, FiniteSets, TLC

(***************************************************************************)
(* Bounds of the model.                                                    *)
(***************************************************************************)
MaxCap == 2

(***************************************************************************)
(* JavaScript strings.                                                     *)
(***************************************************************************)
Digits == <<"0", "1", "2", "3", "4", "5", "6", "7", "8", "9">>

IsDigit(c) == \E i \in 1..Len(Digits) : Digits[i] = c

DigitVal(c) == (CHOOSE i \in 1..Len(Digits) : Digits[i] = c) - 1

Includes(s, c) == \E i \in 1..Len(s) : s[i] = c

\* String.prototype.indexOf: the 0-based place of the first c, or -1
IndexOf(s, c) ==
  IF Includes(s, c)
    THEN (CHOOSE i \in 1..Len(s) : s[i] = c /\ \A j \in 1..(i - 1) : s[j] # c) - 1
    ELSE -1

Clamp(n, len) == IF n < 0 THEN 0 ELSE IF n > len THEN len ELSE n

\* String.prototype.substring: arguments clamped to 0..length, swapped if start > end
Substring(s, a, b) ==
  LET a0 == Clamp(a, Len(s))
      b0 == Clamp(b, Len(s))
      lo == IF a0 <= b0 THEN a0 ELSE b0
      hi == IF a0 <= b0 THEN b0 ELSE a0
  IN  SubSeq(s, lo + 1, hi)

\* path.split('.')
RECURSIVE Split(_)
Split(s) ==
  LET i == IndexOf(s, ".")
  IN  IF i = -1 THEN << s >>
      ELSE << SubSeq(s, 1, i) >> \o Split(SubSeq(s, i + 2, Len(s)))

\* key.replace(/\[|\]/g, '')
StripBrackets(s) == SelectSeq(s, LAMBDA c : c \notin {"[", "]"})

RECURSIVE DigitsValue(_)
DigitsValue(s) ==
  IF s = << >> THEN 0 ELSE DigitsValue(SubSeq(s, 1, Len(s) - 1)) * 10 + DigitVal(s[Len(s)])

AllDigits(s) == s # << >> /\ \A i \in 1..Len(s) : IsDigit(s[i])

\* Number(string) on the strings of the model: '' is 0, an optionally signed
\* run of digits is its value, anything else is NaN
ToNumber(s) ==
  IF s = << >> THEN [nan |-> FALSE, n |-> 0]
  ELSE IF AllDigits(s) THEN [nan |-> FALSE, n |-> DigitsValue(s)]
  ELSE IF s[1] = "-" /\ AllDigits(Tail(s)) THEN [nan |-> FALSE, n |-> 0 - DigitsValue(Tail(s))]
  ELSE [nan |-> TRUE, n |-> 0]

RECURSIVE NumToStr(_)
NumToStr(n) ==
  IF n < 10 THEN << Digits[n + 1] >> ELSE NumToStr(n \div 10) \o << Digits[(n % 10) + 1] >>

\* an array index written as a property name ("0", "1", "10"; not "01")
CanonIndex(s) == AllDigits(s) /\ (Len(s) = 1 \/ s[1] # "0")

(***************************************************************************)
(* JavaScript values.                                                      *)
(***************************************************************************)
Undef == [t |-> "undef"]
Null == [t |-> "null"]
Num(n) == [t |-> "num", v |-> n]
Obj(kv) == [t |-> "obj", kv |-> kv]
Arr(el, kv) == [t |-> "arr", el |-> el, kv |-> kv]
EmptyObj == Obj(<< >>)
EmptyArr == Arr(<< >>, << >>)

IsObject(x) == x.t \in {"obj", "arr"}
Nullish(x) == x.t \in {"undef", "null"}

\* ToBoolean
Truthy(x) ==
  CASE x.t \in {"undef", "null"} -> FALSE
    [] x.t = "num" -> x.v # 0
    [] OTHER -> TRUE

KvHas(kv, name) == \E i \in 1..Len(kv) : kv[i].k = name

KvGet(kv, name) ==
  IF KvHas(kv, name) THEN kv[CHOOSE i \in 1..Len(kv) : kv[i].k = name].v ELSE Undef

\* own properties keep insertion order, integer-like names first in ascending order
KvPut(kv, name, val) ==
  IF KvHas(kv, name)
    THEN LET i == CHOOSE j \in 1..Len(kv) : kv[j].k = name
         IN  SubSeq(kv, 1, i - 1) \o << [k |-> name, v |-> val] >> \o SubSeq(kv, i + 1, Len(kv))
  ELSE IF CanonIndex(name)
    THEN LET before == SelectSeq(kv, LAMBDA e : CanonIndex(e.k) /\ DigitsValue(e.k) < DigitsValue(name))
             after == SelectSeq(kv, LAMBDA e : ~(CanonIndex(e.k) /\ DigitsValue(e.k) < DigitsValue(name)))
         IN  before \o << [k |-> name, v |-> val] >> \o after
  ELSE Append(kv, [k |-> name, v |-> val])

\* arr[i] = val: the array grows to i + 1 slots, the new slots below i are holes
RECURSIVE Holes(_)
Holes(n) == IF n <= 0 THEN << >> ELSE Append(Holes(n - 1), Undef)

ElPut(el, i, val) ==
  IF i < Len(el)
    THEN SubSeq(el, 1, i) \o << val >> \o SubSeq(el, i + 2, Len(el))
    ELSE el \o Holes(i - Len(el)) \o << val >>

\* x[name] for a string name; x is not null or undefined
PropGet(x, name) ==
  CASE x.t = "obj" -> KvGet(x.kv, name)
    [] x.t = "arr" -> IF CanonIndex(name)
                        THEN IF DigitsValue(name) < Len(x.el) THEN x.el[DigitsValue(name) + 1] ELSE Undef
                        ELSE KvGet(x.kv, name)
    [] OTHER -> Undef

\* Object.prototype.hasOwnProperty.call(x, name); x is not null or undefined
HasOwn(x, name) ==
  CASE x.t = "obj" -> KvHas(x.kv, name)
    [] x.t = "arr" -> IF CanonIndex(name)
                        THEN DigitsValue(name) < Len(x.el) /\ x.el[DigitsValue(name) + 1] # Undef
                        ELSE KvHas(x.kv, name)
    [] OTHER -> FALSE

\* x[name] = val in strict mode: a TypeError on a primitive, null or undefined
PropSet(x, name, val) ==
  CASE x.t = "obj" -> [ok |-> TRUE, err |-> "", tree |-> Obj(KvPut(x.kv, name, val))]
    [] x.t = "arr" -> IF CanonIndex(name)
                        THEN [ok |-> TRUE, err |-> "", tree |-> Arr(ElPut(x.el, DigitsValue(name), val), x.kv)]
                        ELSE [ok |-> TRUE, err |-> "", tree |-> Arr(x.el, KvPut(x.kv, name, val))]
    [] OTHER -> [ok |-> FALSE, err |-> "TypeError", tree |-> x]

Fail(e, x) == [ok |-> FALSE, err |-> e, tree |-> x]
Ok(x) == [ok |-> TRUE, err |-> "", tree |-> x]

(***************************************************************************)
(* utils/Lodash: set, get.                                                 *)
(***************************************************************************)
\* key.substring(0, key.indexOf('['))
ArrayKey(key) == Substring(key, 0, IndexOf(key, "["))

\* Number(key.substring(key.indexOf('[') + 1, key.indexOf(']')))
ArrayIndex(key) == ToNumber(Substring(key, IndexOf(key, "[") + 1, IndexOf(key, "]")))

\* if (Number.isNaN(arrayIndex) || arrayIndex < 0) throw new RangeError(..)
BadIndex(idx) == IF idx.nan THEN TRUE ELSE idx.n < 0

\* if (!current[arrayKey]) current[arrayKey] = []
EnsureArray(current, arrayKey) ==
  IF Nullish(current) THEN Fail("TypeError", current)
  ELSE IF Truthy(PropGet(current, arrayKey)) THEN Ok(current)
  ELSE PropSet(current, arrayKey, EmptyArr)

\* if (!current[arrayIndex]) current[arrayIndex] = {}
EnsureSlot(arr, name) ==
  IF Truthy(PropGet(arr, name)) THEN Ok(arr) ELSE PropSet(arr, name, EmptyObj)

\* the node `parent` after its child `name`, reached by reference, was changed
\* into r.tree by the rest of the walk; a child that is no object cannot
\* have been changed
PutBack(parent, name, r) ==
  IF IsObject(r.tree)
    THEN [ok |-> r.ok, err |-> r.err, tree |-> PropSet(parent, name, r.tree).tree]
    ELSE [ok |-> r.ok, err |-> r.err, tree |-> parent]

\* the final key with a bracket: current = current[arrayKey]; current[arrayIndex] = value
FinalIndexed(r1, arrayKey, name, value) ==
  IF ~r1.ok THEN r1
  ELSE PutBack(r1.tree, arrayKey, PropSet(PropGet(r1.tree, arrayKey), name, value))

\* the walk of set() from keys[i] on, `current` being the node reached; the
\* result carries the node as the walk leaves it (the code mutates in place)
RECURSIVE SetWalk(_, _, _, _)

\* an intermediate key with a bracket, after current[arrayKey] and its slot exist
ThroughSlot(r2, name, keys, i, value) ==
  IF ~r2.ok THEN r2
  ELSE PutBack(r2.tree, name, SetWalk(PropGet(r2.tree, name), keys, i + 1, value))

ThroughArray(r1, arrayKey, name, keys, i, value) ==
  IF ~r1.ok THEN r1
  ELSE PutBack(r1.tree, arrayKey,
               ThroughSlot(EnsureSlot(PropGet(r1.tree, arrayKey), name), name, keys, i, value))

\* an intermediate key without a bracket that current does not own:
\* current[key] = {}; current = current[key]
ThroughNew(r1, key, keys, i, value) ==
  IF ~r1.ok THEN r1
  ELSE PutBack(r1.tree, key, SetWalk(EmptyObj, keys, i + 1, value))

WalkStep(current, keys, i, value, key, idx) ==
  IF i = Len(keys) THEN
    IF Includes(key, "[") THEN
      IF BadIndex(idx) THEN Fail("InvalidPath", current)
      ELSE FinalIndexed(EnsureArray(current, ArrayKey(key)), ArrayKey(key), NumToStr(idx.n), value)
    ELSE PropSet(current, key, value)
  ELSE IF Nullish(current) THEN Fail("TypeError", current)
  ELSE IF HasOwn(current, key) THEN
    PutBack(current, key, SetWalk(PropGet(current, key), keys, i + 1, value))
  ELSE IF Includes(key, "[") THEN
    IF BadIndex(idx) THEN Fail("InvalidPath", current)
    ELSE ThroughArray(EnsureArray(current, ArrayKey(key)), ArrayKey(key), NumToStr(idx.n), keys, i, value)
  ELSE ThroughNew(PropSet(current, key, EmptyObj), key, keys, i, value)

SetWalk(current, keys, i, value) ==
  WalkStep(current, keys, i, value, keys[i], ArrayIndex(keys[i]))

\* set(object, path, value): Validator.object(object), Validator.string(path),
\* then the walk over path.split('.')
Lodash_set(object, path, value) ==
  IF object.t # "obj" THEN Fail("ValidationError", object)
  ELSE SetWalk(object, Split(path), 1, value)

\* get(object, path) for a string path: every segment loses its brackets
\* before the walk, so the Array.isArray branch never runs for it
RECURSIVE GetWalk(_, _, _)

\* what get() yields when a property read inside it throws a TypeError
Thrown == [t |-> "thrown"]

\* current[key]: a TypeError when current is null or undefined
GetProp(current, key) == IF Nullish(current) THEN Thrown ELSE PropGet(current, key)

\* if (current === null) return undefined
IsNull_never(current) == FALSE

IsNull(current) == current.t = "null"

GetNext(next, segments, i) ==
  IF next = Undef THEN Undef
  ELSE IF next = Thrown THEN Thrown
  ELSE GetWalk(next, segments, i + 1)

GetWalk(current, segments, i) ==
  IF i > Len(segments) THEN current
  ELSE IF IsNull(current) THEN Undef
  ELSE GetNext(GetProp(current, segments[i]), segments, i)

StripSegments(segs) ==
  IF segs = << >> THEN << >>
  ELSE [i \in 1..Len(segs) |-> IF Includes(segs[i], "[") THEN StripBrackets(segs[i]) ELSE segs[i]]

Lodash_get(object, path) ==
  IF ~IsObject(object) THEN Undef
  ELSE GetWalk(object, StripSegments(Split(path)), 1)

\* the historical get: the same walk, but a null met on the way or at the
\* end is answered with undefined
NullToUndef(x) == IF x = Null THEN Undef ELSE x

Lodash_get_historical(object, path) ==
  IF object = Null THEN Thrown
  ELSE IF ~IsObject(object) THEN Undef
  ELSE NullToUndef(GetWalk(object, StripSegments(Split(path)), 1))

(***************************************************************************)
(* Serialisation.  The bytes of a backing file are modelled by the format  *)
(* that wrote them and the value a parser of that format reads back:       *)
(* stringify drops what the format cannot hold (undefined properties, the  *)
(* named properties of an array) and writes holes as null.                 *)
(***************************************************************************)
RECURSIVE Serializable(_)
RECURSIVE SerializableKv(_)
RECURSIVE SerializableEl(_)
Serializable(x) ==
  CASE x.t = "obj" -> Obj(SerializableKv(x.kv))
    [] x.t = "arr" -> Arr(SerializableEl(x.el), << >>)
    [] OTHER -> x

SerializableKv(kv) ==
  IF kv = << >> THEN << >>
  ELSE IF Head(kv).v = Undef THEN SerializableKv(Tail(kv))
  ELSE << [k |-> Head(kv).k, v |-> Serializable(Head(kv).v)] >> \o SerializableKv(Tail(kv))

SerializableEl(el) ==
  IF el = << >> THEN << >>
  ELSE << IF Head(el) = Undef THEN Null ELSE Serializable(Head(el)) >> \o SerializableEl(Tail(el))

NoFile == [enc |-> "absent", doc |-> Undef]

\* the literal '{}' that the file-creating constructor writes
EmptyJsonText == [enc |-> "json", doc |-> EmptyObj]

\* JSON.stringify(data, null, spaces)
JSON_stringify(data) == [enc |-> "json", doc |-> Serializable(data)]

\* BSON.serialize(data)
BSON_serialize(data) == [enc |-> "bson", doc |-> Serializable(data)]

\* YAML.stringify(data)
YAML_stringify(data) == [enc |-> "yaml", doc |-> Serializable(data)]

\* JSON.parse(text)
JSON_parse(bytes) ==
  IF bytes.enc = "json" THEN Ok(bytes.doc) ELSE Fail("SyntaxError", Undef)

\* BSON.deserialize(buffer)
BSON_deserialize(bytes) ==
  IF bytes.enc = "bson" THEN Ok(bytes.doc) ELSE Fail("BSONError", Undef)

\* YAML.parse(text): YAML 1.2 reads JSON text too
YAML_parse(bytes) ==
  IF bytes.enc \in {"yaml", "json"} THEN Ok(bytes.doc) ELSE Fail("YAMLParseError", Undef)

(***************************************************************************)
(* Map<string, V>: the entries in insertion order.                         *)
(***************************************************************************)
MapHas(m, key) == \E i \in 1..Len(m) : m[i].k = key

MapGet(m, key) ==
  IF MapHas(m, key) THEN m[CHOOSE i \in 1..Len(m) : m[i].k = key].v ELSE Undef

\* a Map that appended an entry on every set
MapSet_append(m, key, value) == Append(m, [k |-> key, v |-> value])

\* Map.prototype.set: a present key keeps its place
MapSet(m, key, value) ==
  IF MapHas(m, key)
    THEN LET i == CHOOSE j \in 1..Len(m) : m[j].k = key
         IN  SubSeq(m, 1, i - 1) \o << [k |-> key, v |-> value] >> \o SubSeq(m, i + 1, Len(m))
    ELSE Append(m, [k |-> key, v |-> value])

\* a Map whose delete drops the oldest entry
MapDelete_oldest(m, key) == IF m = << >> THEN m ELSE Tail(m)

\* Map.prototype.delete
MapDelete(m, key) == SelectSeq(m, LAMBDA e : e.k # key)

(***************************************************************************)
(* The drivers.  `variant` is the version of the MemoryDriver base class,  *)
(* `kind` the concrete class (MemoryDriver itself or a subclass), and      *)
(* `capacity` its options.size.  A world w is [cache, csize, file]: the    *)
(* Map, the _size counter of the variant that keeps one, and the content   *)
(* of the backing file.                                                    *)
(***************************************************************************)
VARIABLES variant, kind, capacity, cache, csize, file, last, pend, fresh,
          plib, ptree, ppath, pval, pres, pout, pc,
          given, codec, options, derived, store

dvars == <<variant, kind, capacity, cache, csize, file, last, pend, fresh>>
pvars == <<plib, ptree, ppath, pval, pres, pout, pc>>
\* the options a caller passed to the constructor, whether require('bson')
\* found the module, and the options the constructor assigned to the driver
cvars == <<given, codec, options>>
\* the copy of the Database class that wraps the driver, "none" when the
\* driver is used on its own
NoStore == "none"
vars == <<dvars, pvars, cvars, derived, store>>

\* a value that is not a string (Validator.string rejects it)
NotAString == << "#number" >>

K_a == << "a" >>
K_ab == << "a", ".", "b" >>
K_r0 == << "r", "[", "0", "]" >>
K_neg == << "r", "[", "-", "1", "]" >>

\* "a" is a strict path prefix of "a.b"; "r[-1]" is a malformed path
Keys == {K_a, K_ab, K_r0, K_neg, NotAString}

Values == {Num(1), Num(2)}

\* the versions of the MemoryDriver base class in the repository
Variants == {"lib", "p002", "p003", "p004a", "p004b"}

\* the in-memory drivers
MemoryConfigs == {<<v, "memory">> : v \in Variants}

\* the persistent drivers: the adapters of lib/drivers on the base class next
\* to them, JsonDriver and BsonDriver on the base class that flushes in set()
\* and creates the file, BsonDriver on the base class that has the json() it
\* calls
PersistentConfigs ==
  { <<"lib", "json">>, <<"lib", "bson">>, <<"lib", "yaml">>,
    <<"p002", "json">>, <<"p002", "bson">>, <<"p004b", "bson">> }

\* options.size: 0 is unbounded
Capacities == {0, MaxCap}

World(c, n, f) == [cache |-> c, csize |-> n, file |-> f]
Outcome(r, w) == [res |-> r, w |-> w]

\* Validator.string(value)
ValidString(key) == key # NotAString

\* toJSON() / json(): set(data, key, value) for every entry, from {}
RECURSIVE ToJSONFrom(_, _)
\* a throw of set() ends the loop
ToJSONRest(r, entries) == IF r.ok THEN ToJSONFrom(r.tree, entries) ELSE r

ToJSONFrom(data, entries) ==
  IF entries = << >> THEN Ok(data)
  ELSE ToJSONRest(Lodash_set(data, Head(entries).k, Head(entries).v), Tail(entries))

toJSON(c) == ToJSONFrom(EmptyObj, c)

\* which of toJSON / json the base class of a variant defines
HasToJSON(v) == v \in {"lib", "p002", "p003", "p004a"}
HasJson(v) == v = "p004b"

\* writeFileSync(path, bytes) once the tree is built; a throw while building
\* it leaves the file alone
writeFileSync(w, data, enc) ==
  IF ~data.ok THEN Outcome(data.err, w)
  ELSE Outcome("ok", World(w.cache, w.csize,
                           CASE enc = "json" -> JSON_stringify(data.tree)
                             [] enc = "bson" -> BSON_serialize(data.tree)
                             [] OTHER -> YAML_stringify(data.tree)))

\* JsonDriver.write: JSON.stringify(this.toJSON(), null, spaces)
JsonDriver_write(v, w) ==
  IF ~HasToJSON(v) THEN Outcome("TypeError", w) ELSE writeFileSync(w, toJSON(w.cache), "json")

\* BsonDriver.write: BSON.serialize(this.json())
BsonDriver_write(v, w) ==
  IF ~HasJson(v) THEN Outcome("TypeError", w) ELSE writeFileSync(w, toJSON(w.cache), "bson")

\* YamlDriver.write: YAML.stringify(this.json())
YamlDriver_write(v, w) ==
  IF ~HasJson(v) THEN Outcome("TypeError", w) ELSE writeFileSync(w, toJSON(w.cache), "yaml")

\* this.write() by the class of the driver
write(v, k, w) ==
  CASE k = "json" -> JsonDriver_write(v, w)
    [] k = "bson" -> BsonDriver_write(v, w)
    [] k = "yaml" -> YamlDriver_write(v, w)
    [] OTHER -> Outcome("NotImplemented", w)

\* MemoryDriver.set of lib/drivers/MemoryDriver.ts
set_lib(k, cap, w, key, value) ==
  IF cap # 0 /\ Len(w.cache) >= cap THEN Outcome("CapacityExceeded", w)
  ELSE IF ~ValidString(key) THEN Outcome("ValidationError", w)
  ELSE Outcome("ok", World(MapSet(w.cache, key, value), w.csize, w.file))

\* MemoryDriver.set of the variant that flushes
set_p002(k, cap, w, key, value) ==
  IF cap # 0 /\ Len(w.cache) >= cap THEN Outcome("CapacityExceeded", w)
  ELSE IF ~ValidString(key) THEN Outcome("ValidationError", w)
  ELSE IF k # "memory" THEN write("p002", k, World(MapSet(w.cache, key, value), w.csize, w.file))
  ELSE Outcome("ok", World(MapSet(w.cache, key, value), w.csize, w.file))

\* MemoryDriver.set of the variant that counts entries in _size
set_p003(k, cap, w, key, value) ==
  IF cap # 0 /\ w.csize >= cap THEN Outcome("CapacityExceeded", w)
  ELSE IF ~ValidString(key) THEN Outcome("ValidationError", w)
  ELSE Outcome("ok", World(MapSet(w.cache, key, value),
                           IF ~MapHas(w.cache, key) THEN w.csize + 1 ELSE w.csize,
                           w.file))

\* MemoryDriver.set of the two historical variants (Validator.any, of the
\* Validator of their time, lets every value through)
set_p004(k, cap, w, key, value) ==
  IF cap # 0 /\ Len(w.cache) > cap THEN Outcome("CapacityExceeded", w)
  ELSE IF ~ValidString(key) THEN Outcome("ValidationError", w)
  ELSE Outcome("ok", World(MapSet(w.cache, key, value), w.csize, w.file))

MemoryDriver_set(v, k, cap, w, key, value) ==
  CASE v = "lib" -> set_lib(k, cap, w, key, value)
    [] v = "p002" -> set_p002(k, cap, w, key, value)
    [] v = "p003" -> set_p003(k, cap, w, key, value)
    [] OTHER -> set_p004(k, cap, w, key, value)

\* MemoryDriver.size: this.cache.size
size_cache(w) == Len(w.cache)

\* MemoryDriver.size of the variant that counts: this._size
size_p003(w) == w.csize

size(v, w) == IF v = "p003" THEN size_p003(w) ELSE size_cache(w)

\* MemoryDriver.get, MemoryDriver.has
get(w, key) == MapGet(w.cache, key)
has(w, key) == MapHas(w.cache, key)

\* MemoryDriver.setMany: set for each entry, the first error ends the loop
RECURSIVE MemoryDriver_setMany(_, _, _, _, _)
setManyRest(v, k, cap, o, entries) ==
  IF o.res = "ok" THEN MemoryDriver_setMany(v, k, cap, o.w, entries) ELSE o

MemoryDriver_setMany(v, k, cap, w, entries) ==
  IF entries = << >> THEN Outcome("ok", w)
  ELSE setManyRest(v, k, cap, MemoryDriver_set(v, k, cap, w, Head(entries).k, Head(entries).v),
                   Tail(entries))

HasSetMany(v) == v \in {"lib", "p002", "p003"}

\* MemoryDriver.del: this.cache.delete(Validator.string(key))
del_cache(w, key) ==
  IF ~ValidString(key) THEN Outcome("ValidationError", w)
  ELSE IF ~MapHas(w.cache, key) THEN Outcome("false", w)
  ELSE Outcome("true", World(MapDelete(w.cache, key), w.csize, w.file))

\* MemoryDriver.del of the variant that counts: _size-- when the key was held
del_p003(w, key) ==
  IF ~ValidString(key) THEN Outcome("ValidationError", w)
  ELSE IF ~MapHas(w.cache, key) THEN Outcome("false", w)
  ELSE Outcome("true", World(MapDelete(w.cache, key), w.csize - 1, w.file))

MemoryDriver_del(v, w, key) == IF v = "p003" THEN del_p003(w, key) ELSE del_cache(w, key)

\* MemoryDriver.clear: this.cache.clear()
clear_cache(w) == World(<< >>, w.csize, w.file)

\* MemoryDriver.clear of the variant that counts: and this._size = 0
clear_p003(w) == World(<< >>, 0, w.file)

MemoryDriver_clear(v, w) == IF v = "p003" THEN clear_p003(w) ELSE clear_cache(w)

\* the enumerable own properties that for..in visits
ForIn(data) ==
  CASE data.t = "obj" -> data.kv
    [] OTHER -> << >>

\* MemoryDriver.toArray: new Array(this.cache.size), then arr[i++] = { key,
\* value } for the entries of the Map in its order
toArray_cache(w) == Ok(w.cache)

\* MemoryDriver.toArray of the variant that counts: new Array(this._size); the
\* slots past the entries of the Map stay holes
toArray_p003(w) == Ok(w.cache \o Holes(w.csize - Len(w.cache)))

\* for (const key in data) arr.push({ key, value: data[key] }) on the tree that
\* toJSON() / json() built; a throw of set() ends the call
pushForIn(data) == IF ~data.ok THEN Fail(data.err, << >>) ELSE Ok(ForIn(data.tree))

\* MemoryDriver.toArray of the historical variant: goes through toJSON()
toArray_p004(w) == pushForIn(toJSON(w.cache))

\* MemoryDriver.array of the historical variant: goes through json()
array_p004(w) == pushForIn(toJSON(w.cache))

toArray(v, w) ==
  CASE v \in {"lib", "p002"} -> toArray_cache(w)
    [] v = "p003" -> toArray_p003(w)
    [] v = "p004a" -> toArray_p004(w)
    [] OTHER -> array_p004(w)

\* Database.all(): new Set(this.options.driver.toArray()), amount being 0
Database_all(v, w) == toArray(v, w)

\* JsonDriver.read / BsonDriver.read / YamlDriver.read after the parse:
\* for (const key in data) this.cache.set(key, get(data, key))
RECURSIVE ReadKeys(_, _, _)
ReadKeys(data, names, c) ==
  IF names = << >> THEN c
  ELSE ReadKeys(data, Tail(names), MapSet(c, Head(names).k, Lodash_get(data, Head(names).k)))

\* the parse of the backing file by the class of the driver
parse(k, bytes) ==
  CASE k = "json" -> JSON_parse(bytes)
    [] k = "bson" -> BSON_deserialize(bytes)
    [] k = "yaml" -> YAML_parse(bytes)
    [] OTHER -> Fail("NotImplemented", Undef)

fill(w, parsed) ==
  IF ~parsed.ok THEN Outcome(parsed.err, w)
  ELSE Outcome("ok", World(ReadKeys(parsed.tree, ForIn(parsed.tree), w.cache), w.csize, w.file))

\* this.read() by the class of the driver, into the cache of w
read(k, w) == fill(w, parse(k, w.file))

\* the first if of the constructor: a subclass reads the file when it
\* exists, and whatever read() throws becomes 'Database malformed'
load(k, f) ==
  IF k # "memory" /\ f.enc # "absent" THEN read(k, World(<< >>, 0, f))
  ELSE Outcome("ok", World(<< >>, 0, f))

\* a constructor without the try / catch around this.read()
malformed_rethrow(f, loaded) == loaded

malformed(f, loaded) ==
  IF loaded.res # "ok" THEN Outcome("CorruptStore", World(<< >>, 0, f)) ELSE loaded

\* new Driver(options), the options being valid, on the backing file f
constructor_lib(k, f) == malformed(f, load(k, f))

\* the second if of the constructor of the variant that flushes: a subclass
\* whose file does not exist writes '{}' to it
createFile(k, f, o) ==
  IF o.res = "ok" /\ k # "memory" /\ f.enc = "absent"
    THEN Outcome("ok", World(o.w.cache, o.w.csize, EmptyJsonText))
    ELSE o

\* the constructor of the variant that flushes after its checkOptions, the
\* options being taken as valid and assigned (checkOptions_p002 below throws
\* for every input; the driver specifications start behind it)
constructor_p002(k, f) == createFile(k, f, malformed(f, load(k, f)))

MemoryDriver_new(v, k, f) == IF v = "p002" THEN constructor_p002(k, f) ELSE constructor_lib(k, f)

(***************************************************************************)
(* map(callback): a new driver that holds the entries for which the        *)
(* callback returns true.  The callbacks tried are named: "all" returns    *)
(* true, "keyA" returns key === 'a'.  A mapped result is [res, src, kind,  *)
(* cache]: the error thrown or "ok", the source driver after the call, and *)
(* the class and the Map of the driver returned.                           *)
(***************************************************************************)
callback(pred, value, key) == IF pred = "all" THEN TRUE ELSE key = K_a

\* a class whose static Symbol.species getter returns the class itself
species_self(cls) == cls

\* this.constructor[Symbol.species]: no class of the repository defines the
\* static property and Function.prototype has none, so the read is undefined
species(cls) == "undefined"

\* for (const [key, value] of this.cache) if (callback(value, key, this))
\* _cache.set(key, value); a throw of set ends the call
RECURSIVE mapLoop(_, _, _, _, _, _)
mapRest(v, dk, cap, o, entries, pred) ==
  IF o.res = "ok" THEN mapLoop(v, dk, cap, o.w, entries, pred) ELSE o

mapLoop(v, dk, cap, d, entries, pred) ==
  IF entries = << >> THEN Outcome("ok", d)
  ELSE IF ~callback(pred, Head(entries).v, Head(entries).k)
    THEN mapLoop(v, dk, cap, d, Tail(entries), pred)
  ELSE mapRest(v, dk, cap, MemoryDriver_set(v, dk, cap, d, Head(entries).k, Head(entries).v),
               Tail(entries), pred)

Mapped(res, src, dk, c) == [res |-> res, src |-> src, kind |-> dk, cache |-> c]

\* the new driver is on the path of the source: what it does to the file, it
\* does to the file of the source
mapEnd(w, dk, o) ==
  Mapped(o.res, World(w.cache, w.csize, o.w.file), dk,
         IF o.res = "ok" THEN o.w.cache ELSE << >>)

mapFrom(v, dk, cap, w, made, pred) ==
  IF made.res # "ok" THEN Mapped(made.res, World(w.cache, w.csize, made.w.file), dk, << >>)
  ELSE mapEnd(w, dk, mapLoop(v, dk, cap, made.w, w.cache, pred))

\* new C(this.options), then the loop; new undefined(...) is a TypeError
mapInto(v, dk, cap, w, pred) ==
  IF dk = "undefined" THEN Mapped("TypeError", w, dk, << >>)
  ELSE mapFrom(v, dk, cap, w, MemoryDriver_new(v, dk, w.file), pred)

\* MemoryDriver.map: new this.constructor[Symbol.species](this.options)
map_species(v, k, cap, w, pred) == mapInto(v, species(k), cap, w, pred)

\* MemoryDriver.map of the historical variant: new MemoryDriver(this.options)
map_p004b(v, k, cap, w, pred) == mapInto(v, "memory", cap, w, pred)

MemoryDriver_map(v, k, cap, w, pred) ==
  IF v = "p004b" THEN map_p004b(v, k, cap, w, pred) ELSE map_species(v, k, cap, w, pred)

(***************************************************************************)
(* Options.  A caller passes { type, path, size }, each possibly left out: *)
(* type is a string ("undefined" when left out), size a number or Undef,   *)
(* path a string, a URL or Undef.  options.spaces of JsonDriver is left to *)
(* its default.                                                            *)
(***************************************************************************)
Str(name) == [t |-> "str", name |-> name]
URL(dir, name) == [t |-> "url", dir |-> dir, name |-> name]

\* the template string `erfdb.${type}`
DefaultName(type) == << "erfdb", type >>

\* new URL(`file://${resolve(process.cwd(), path)}`)
Resolve(path) == URL("cwd", path.name)

\* { ...options, type }
Spread(o, type) == [type |-> type, path |-> o.path, size |-> o.size]

validTypes == {"json", "bson", "yaml", "memory", "custom", "auto"}

\* a ?? b
Coalesce(a, b) == IF a = Undef THEN b ELSE a
CoalesceType(a, b) == IF a = "undefined" THEN b ELSE a

NoOptions == [type |-> "undefined", path |-> Undef, size |-> Undef]

Checked(o) == [ok |-> TRUE, err |-> "", options |-> o]
Refused(e) == [ok |-> FALSE, err |-> e, options |-> NoOptions]

\* typeof options.size !== 'number' || options.size < 0
BadSize(n) == IF n.t # "num" THEN TRUE ELSE n.v < 0

\* the checks of checkOptions after the defaults are set
validate_lib(type, path, n) ==
  IF type \notin validTypes THEN Refused("InvalidOptions")
  ELSE IF BadSize(n) THEN Refused("InvalidOptions")
  ELSE Checked([type |-> type,
                path |-> IF path.t = "url" THEN path ELSE Resolve(path),
                size |-> n])

\* static checkOptions(o) of lib/drivers/MemoryDriver.ts
checkOptions_lib(o) ==
  validate_lib(CoalesceType(o.type, "memory"),
               Coalesce(o.path, Str(DefaultName(CoalesceType(o.type, "memory")))),
               Coalesce(o.size, Num(0)))

\* the checks of checkOptions of the variant that flushes: 'path' was defined
\* by Object.defineProperty, so defining it again for a path that is no URL
\* throws and is reported as 'Invalid path'; Object.assign(target, _options)
\* throws a TypeError for a target that is undefined
validate_p002(target, type, path, n) ==
  IF type \notin validTypes THEN Refused("InvalidOptions")
  ELSE IF path.t # "url" THEN Refused("InvalidOptions")
  ELSE IF BadSize(n) THEN Refused("InvalidOptions")
  ELSE IF target = Undef THEN Refused("TypeError")
  ELSE Checked(target)

\* static checkOptions(target, base, override) of the variant that flushes
checkOptions_p002(target, base, override) ==
  validate_p002(target,
                CoalesceType(override.type, CoalesceType(base.type, "memory")),
                Coalesce(override.path,
                         Coalesce(base.path,
                                  Str(DefaultName(CoalesceType(override.type,
                                                               CoalesceType(base.type, "memory")))))),
                Coalesce(override.size, Coalesce(base.size, Num(0))))

\* what the constructor of a subclass hands to super(): { ...options, type }
superOptions(cls, o) == IF cls = "memory" THEN o ELSE Spread(o, cls)

(***************************************************************************)
(* Construction: new Driver(options) of class cls on the backing file f,   *)
(* bson being the presence of the 'bson' module.  A constructed driver is  *)
(* [res, w, options]; res # "ok" is the error thrown, and then there is no *)
(* driver.                                                                 *)
(***************************************************************************)
Built(res, w, o) == [res |-> res, w |-> w, options |-> o]

\* BsonDriver.read with the module missing: BSON.deserialize is a property read
\* of undefined
BsonDriver_read(bson, w) == IF ~bson THEN Outcome("TypeError", w) ELSE read("bson", w)

\* the first if of the constructor, for a BsonDriver
load_bson(bson, f) ==
  IF f.enc # "absent" THEN BsonDriver_read(bson, World(<< >>, 0, f))
  ELSE Outcome("ok", World(<< >>, 0, f))

\* the body of the MemoryDriver constructor after checkOptions
body_lib(cls, bson, f) ==
  IF cls = "bson" THEN malformed(f, load_bson(bson, f)) ELSE constructor_lib(cls, f)

body_p002(cls, bson, f) ==
  IF cls = "bson" THEN createFile(cls, f, malformed(f, load_bson(bson, f)))
  ELSE constructor_p002(cls, f)

Finish(checked, o, f) ==
  IF ~checked.ok THEN Built(checked.err, World(<< >>, 0, f), NoOptions)
  ELSE Built(o.res, o.w, IF o.res = "ok" THEN checked.options ELSE NoOptions)

\* MemoryDriver constructor of lib/drivers: this.options =
\* checkOptions({ ...options, type: 'memory' }), then the load
MemoryDriver_constructor_lib(cls, o, bson, f) ==
  Finish(checkOptions_lib(Spread(o, "memory")), body_lib(cls, bson, f), f)

\* MemoryDriver constructor of the variant that flushes:
\* checkOptions(this.options, options, { type: 'memory' }), this.options
\* being undefined
MemoryDriver_constructor_p002(cls, o, bson, f) ==
  Finish(checkOptions_p002(Undef, o, Spread(NoOptions, "memory")), body_p002(cls, bson, f), f)

MemoryDriver_constructor(v, cls, o, bson, f) ==
  IF v = "p002" THEN MemoryDriver_constructor_p002(cls, o, bson, f)
  ELSE MemoryDriver_constructor_lib(cls, o, bson, f)

\* BsonDriver constructor after super(): if (!BSON) throw
BsonDriver_constructor(made, bson) ==
  IF made.res = "ok" /\ ~bson
    THEN Built("DependencyMissing", World(<< >>, 0, made.w.file), NoOptions)
    ELSE made

\* new MemoryDriver / JsonDriver / BsonDriver / YamlDriver (options)
construct(v, cls, o, bson, f) ==
  IF cls = "bson"
    THEN BsonDriver_constructor(MemoryDriver_constructor(v, cls, superOptions(cls, o), bson, f), bson)
    ELSE MemoryDriver_constructor(v, cls, superOptions(cls, o), bson, f)

(***************************************************************************)
(* The state machine of one driver.                                        *)
(***************************************************************************)
NoKey == << >>
NoPend == [ph |-> 0, key |-> NoKey]

\* a key that set() of the path utility refuses on its own
Malformed(key) == ValidString(key) /\ ~Lodash_set(EmptyObj, key, Num(0)).ok

W == World(cache, csize, file)

PathIdle ==
  /\ plib = "current" /\ ptree = EmptyObj /\ ppath = NoKey /\ pval = Undef
  /\ pres = Ok(EmptyObj) /\ pout = Undef /\ pc = "off"

Created(o) == cache = o.w.cache /\ csize = o.w.csize /\ file = o.w.file

\* no second driver is open on the file
NoFresh == [res |-> "none", cache |-> << >>]

\* map() was not called
NoDerived == [res |-> "none", kind |-> "none", cache |-> << >>, pred |-> "none"]

\* a driver that was constructed with { size: capacity } and the module present
Constructed ==
  /\ given = [type |-> "undefined", path |-> Undef, size |-> Num(capacity)]
  /\ codec = TRUE
  /\ options = [type |-> "memory", path |-> Resolve(Str(DefaultName("memory"))),
                size |-> Num(capacity)]

InitOf(configs, capacities) ==
  /\ \E c \in configs : variant = c[1] /\ kind = c[2]
  /\ capacity \in capacities
  /\ Created(MemoryDriver_new(variant, kind, NoFile))
  /\ last = [op |-> "new", key |-> NoKey, val |-> Undef, res |-> "ok"]
  /\ pend = NoPend
  /\ fresh = NoFresh
  /\ derived = NoDerived
  /\ store = NoStore
  /\ Constructed
  /\ PathIdle

InitMemory == InitOf(MemoryConfigs, Capacities)

InitPersistent == InitOf(PersistentConfigs, Capacities)

Apply(w) ==
  /\ cache' = w.cache
  /\ csize' = w.csize
  /\ file' = w.file
  /\ fresh' = NoFresh
  /\ derived' = NoDerived
  /\ UNCHANGED <<variant, kind, capacity, pvars, cvars, store>>

\* the model keeps at most MaxCap entries in an unbounded driver
Room(key) == IF capacity # 0 THEN TRUE ELSE IF MapHas(cache, key) THEN TRUE ELSE Len(cache) < MaxCap

\* what a caller who follows the error taxonomy is in the middle of:
\*   1 a set of the new key `key` was rejected with CapacityExceeded
\*   2 then one present key was deleted
\*   3 then the set of `key` was retried (its outcome is in `last`)
\*   5 a set of the malformed key `key` failed with InvalidPath
\*   6 then a set with a well-formed key followed (its outcome is in `last`)
AfterSet(key, res, bad) ==
  IF pend.ph = 2 /\ key = pend.key THEN [ph |-> 3, key |-> key]
  ELSE IF pend.ph = 5 /\ ValidString(key) /\ ~bad THEN [ph |-> 6, key |-> key]
  ELSE IF res = "CapacityExceeded" /\ ValidString(key) /\ ~MapHas(cache, key) THEN [ph |-> 1, key |-> key]
  ELSE IF res = "InvalidPath" /\ bad THEN [ph |-> 5, key |-> key]
  ELSE NoPend

Done(op, key, value, o) ==
  /\ Apply(o.w)
  /\ last' = [op |-> op, key |-> key, val |-> value, res |-> o.res]

Set(key, value) ==
  /\ pc = "off"
  /\ Room(key)
  /\ Done("set", key, value, MemoryDriver_set(variant, kind, capacity, W, key, value))
  /\ pend' = AfterSet(key, last'.res, Malformed(key))

SetMany(k1, k2, value) ==
  /\ pc = "off"
  /\ HasSetMany(variant)
  /\ Room(k1)
  /\ IF MapHas(cache, k1) THEN Room(k2) ELSE IF capacity # 0 THEN TRUE ELSE IF MapHas(cache, k2) THEN TRUE ELSE Len(cache) + 1 < MaxCap
  /\ Done("setMany", k1, value,
          MemoryDriver_setMany(variant, kind, capacity, W,
                               << [k |-> k1, v |-> value], [k |-> k2, v |-> value] >>))
  /\ pend' = NoPend

Del(key) ==
  /\ pc = "off"
  /\ Done("del", key, Undef, MemoryDriver_del(variant, W, key))
  /\ pend' = IF pend.ph = 1 /\ last'.res = "true" THEN [ph |-> 2, key |-> pend.key] ELSE NoPend

Clear ==
  /\ pc = "off"
  /\ Done("clear", NoKey, Undef, Outcome("ok", MemoryDriver_clear(variant, W)))
  /\ pend' = NoPend

\* this.write() called on its own (a flush of the whole map)
Flush ==
  /\ pc = "off"
  /\ kind # "memory"
  /\ Done("flush", NoKey, Undef, write(variant, kind, W))
  /\ pend' = NoPend

\* a second driver of the same class and options is constructed on the same
\* path; `fresh` is its cache after the constructor, or the error it threw
Loaded(o) == [res |-> o.res, cache |-> o.w.cache]

Reopen ==
  /\ pc = "off"
  /\ kind # "memory"
  /\ fresh = NoFresh
  /\ derived = NoDerived
  /\ fresh' = Loaded(MemoryDriver_new(variant, kind, file))
  /\ UNCHANGED <<variant, kind, capacity, cache, csize, file, last, pend, pvars, cvars, derived, store>>

\* unlinkSync(path): throws ENOENT when there is no file
unlinkSync(w) ==
  IF w.file = NoFile THEN Outcome("ENOENT", w)
  ELSE Outcome("ok", World(w.cache, w.csize, NoFile))

\* existsSync(path)
existsSync(w) == w.file # NoFile

Bool(b) == IF b THEN "true" ELSE "false"

\* return !existsSync(path), once unlinkSync has returned
destroy_status(u) == Outcome(Bool(~existsSync(u.w)), u.w)

\* try { unlinkSync; return !existsSync } catch { return false }
destroy_try(u, w) == IF u.res = "ok" THEN destroy_status(u) ELSE Outcome("false", w)

\* the same without the try: the error of unlinkSync leaves destroy
destroy_throw(u, w) == IF u.res = "ok" THEN destroy_status(u) ELSE Outcome(u.res, w)

\* destroy of lib/drivers/MemoryDriver.ts and of the variants that kept it
destroy_lib(k, w) ==
  IF k = "memory" THEN Outcome("false", w) ELSE destroy_try(unlinkSync(w), w)

\* destroy of the first historical variant: the class test only assigns
\* _status and the unlink follows for every class
destroy_p004a(k, w) == destroy_throw(unlinkSync(w), w)

\* destroy of the second historical variant: existsSync guards the unlink
destroy_p004b(k, w) ==
  IF k = "memory" THEN Outcome("false", w)
  ELSE IF ~existsSync(w) THEN Outcome("false", w)
  ELSE destroy_throw(unlinkSync(w), w)

MemoryDriver_destroy(v, k, w) ==
  CASE v = "p004a" -> destroy_p004a(k, w)
    [] v = "p004b" -> destroy_p004b(k, w)
    [] OTHER -> destroy_lib(k, w)

\* destroy()
Destroy ==
  /\ pc = "off"
  /\ Done("destroy", NoKey, Undef, MemoryDriver_destroy(variant, kind, W))
  /\ pend' = NoPend

Predicates == {"all", "keyA"}

MapDone(pred, m) ==
  /\ cache' = m.src.cache
  /\ csize' = m.src.csize
  /\ file' = m.src.file
  /\ derived' = [res |-> m.res, kind |-> m.kind, cache |-> m.cache, pred |-> pred]
  /\ last' = [op |-> "map", key |-> NoKey, val |-> Undef, res |-> m.res]
  /\ pend' = NoPend
  /\ UNCHANGED <<variant, kind, capacity, fresh, pvars, cvars, store>>

\* map(callback); `derived` is the driver it returned
Map(pred) ==
  /\ pc = "off"
  /\ derived = NoDerived
  /\ fresh = NoFresh
  /\ MapDone(pred, MemoryDriver_map(variant, kind, capacity, W, pred))

NextMemory ==
  \/ \E key \in Keys, value \in Values : Set(key, value)
  \/ \E k1 \in Keys, k2 \in Keys, value \in Values : SetMany(k1, k2, value)
  \/ \E key \in Keys : Del(key)
  \/ Clear
  \/ Destroy

\* the persistent drivers store one value, so that the files stay few
NextPersistent ==
  \/ \E key \in Keys : Set(key, Num(1))
  \/ \E k1 \in Keys, k2 \in Keys : SetMany(k1, k2, Num(1))
  \/ \E key \in Keys : Del(key)
  \/ Clear
  \/ Flush
  \/ Destroy
  \/ Reopen
  \/ \E pred \in Predicates : Map(pred)

SpecMemory == InitMemory /\ [][NextMemory]_vars

SpecPersistent == InitPersistent /\ [][NextPersistent]_vars

(***************************************************************************)
(* The path utility on its own: one write at a path, then one read at the  *)
(* same path, by the current or the historical get.                        *)
(***************************************************************************)
P_a == << "a" >>
P_ab == << "a", ".", "b" >>
P_r0 == << "r", "[", "0", "]" >>
P_r1x == << "r", "[", "1", "]", ".", "x" >>
P_ar0 == << "a", ".", "r", "[", "0", "]" >>
P_neg == << "r", "[", "-", "1", "]" >>
P_open == << "r", "[" >>
P_a2b == << "a", "[", "2", "]", ".", "b" >>
P_empty == << >>
P_rx == << "r", "[", "x", "]" >>
P_frac == << "r", "[", "1", ".", "5", "]" >>
P_negx == << "r", "[", "-", "1", "]", ".", "x" >>

Paths == {P_a, P_ab, P_r0, P_r1x, P_ar0, P_neg, P_open, P_a2b, P_empty, P_rx, P_frac, P_negx}

T_a == Obj(<< [k |-> << "a" >>, v |-> Num(1)] >>)
T_ab == Obj(<< [k |-> << "a" >>, v |-> Obj(<< [k |-> << "b" >>, v |-> Num(1)] >>)] >>)
T_r == Obj(<< [k |-> << "r" >>, v |-> Arr(<< Num(1) >>, << >>)] >>)

Trees == {EmptyObj, T_a, T_ab, T_r}

PathValues == {Num(2), Null}

InitPath ==
  /\ variant = "lib" /\ kind = "memory" /\ capacity = 0
  /\ cache = << >> /\ csize = 0 /\ file = NoFile
  /\ last = [op |-> "new", key |-> NoKey, val |-> Undef, res |-> "ok"]
  /\ pend = NoPend
  /\ fresh = NoFresh
  /\ derived = NoDerived
  /\ store = NoStore
  /\ Constructed
  /\ plib \in {"current", "historical"}
  /\ ptree \in Trees
  /\ ppath \in Paths
  /\ pval \in PathValues
  /\ pres = Ok(ptree)
  /\ pout = Undef
  /\ pc = "start"

(***************************************************************************)
(* merge(target, ...sources).  `lib` is "current" or "historical"; the     *)
(* sources are a sequence of values.                                       *)
(***************************************************************************)
RECURSIVE merge(_, _, _)

\* target[key] = []  /  target[key] = {}  when target[key] is falsy or no object
merge_fresh(target, key, empty) ==
  IF ~Truthy(PropGet(target, key)) THEN PropSet(target, key, empty).tree
  ELSE IF ~IsObject(PropGet(target, key)) THEN PropSet(target, key, empty).tree
  ELSE target

\* if (!Array.isArray(target[key])) target[key] = []
merge_array(target, key) ==
  IF PropGet(target, key).t # "arr" THEN PropSet(target, key, EmptyArr).tree ELSE target

\* target[key] = [...target[key], ...source[key]]
merge_concat(target, key, sv) ==
  PropSet(target, key, Arr(PropGet(target, key).el \o sv.el, << >>)).tree

\* merge(target[key], source[key]), target[key] being changed in place
merge_nested(lib, target, key, sv) ==
  PropSet(target, key, merge(lib, PropGet(target, key), << sv >>)).tree

\* the body of the loop over the keys of one source
merge_key(lib, target, key, sv) ==
  IF Truthy(sv) /\ IsObject(sv) THEN
    IF sv.t = "arr"
      THEN merge_concat(merge_array(merge_fresh(target, key, EmptyArr), key), key, sv)
      ELSE merge_nested(lib, merge_fresh(target, key, EmptyObj), key, sv)
  ELSE IF sv # Undef THEN PropSet(target, key, sv).tree
  ELSE IF lib = "historical" THEN PropSet(target, key, sv).tree
  ELSE target

\* for (const key of Object.keys(source)), from the i-th own property on
RECURSIVE merge_keys(_, _, _, _)
merge_keys(lib, target, kv, i) ==
  IF i > Len(kv) THEN target
  ELSE merge_keys(lib, merge_key(lib, target, kv[i].k, kv[i].v), kv, i + 1)

\* the sources that are dropped: after a falsy source nothing is merged
merge_rest_none(sources) == << >>

\* return merge(target, ...sources) after sources.shift()
merge_rest(sources) == Tail(sources)

merge(lib, target, sources) ==
  IF sources = << >> THEN target
  ELSE IF ~Truthy(Head(sources)) THEN target
  ELSE merge(lib, merge_keys(lib, target, ForIn(Head(sources)), 1), merge_rest(sources))

\* set(tree, path, value)
PathWrite ==
  /\ pc = "start"
  /\ pres' = Lodash_set(ptree, ppath, pval)
  /\ pc' = "written"
  /\ UNCHANGED <<dvars, cvars, derived, plib, ptree, ppath, pval, pout, store>>

\* get(tree, path) on the tree that set returned
PathRead ==
  /\ pc = "written"
  /\ pres.ok
  /\ pout' = IF plib = "current" THEN Lodash_get(pres.tree, ppath)
                                  ELSE Lodash_get_historical(pres.tree, ppath)
  /\ pc' = "read"
  /\ UNCHANGED <<dvars, cvars, derived, plib, ptree, ppath, pval, pres, store>>

\* get(tree, path) with any path of the model on the tree that set
\* returned; ppath becomes the path read
PathProbe(path) ==
  /\ pc = "written"
  /\ pres.ok
  /\ ppath' = path
  /\ pout' = IF plib = "current" THEN Lodash_get(pres.tree, path)
                                  ELSE Lodash_get_historical(pres.tree, path)
  /\ pc' = "probed"
  /\ UNCHANGED <<dvars, cvars, derived, plib, ptree, pval, pres, store>>

S_ac == Obj(<< [k |-> << "a" >>, v |-> Obj(<< [k |-> << "c" >>, v |-> Num(2)] >>)] >>)
S_r2 == Obj(<< [k |-> << "r" >>, v |-> Arr(<< Num(2) >>, << >>)] >>)
S_null == Obj(<< [k |-> << "a" >>, v |-> Null], [k |-> << "b" >>, v |-> Num(0)] >>)

MergeSources == {T_a, T_ab, T_r, S_ac, S_r2, S_null}

\* merge(tree, s1, s2); pval becomes the array of the sources
PathMerge(s1, s2) ==
  /\ pc = "start"
  /\ pval' = Arr(<< s1, s2 >>, << >>)
  /\ pres' = Ok(merge(plib, ptree, << s1, s2 >>))
  /\ pc' = "merged"
  /\ UNCHANGED <<dvars, cvars, derived, plib, ptree, ppath, pout, store>>

NextPath ==
  \/ PathWrite
  \/ PathRead
  \/ \E s1 \in MergeSources, s2 \in MergeSources : PathMerge(s1, s2)
  \/ \E path \in Paths : PathProbe(path)

SpecPath == InitPath /\ [][NextPath]_vars

(***************************************************************************)
(* Construction on its own: a caller constructs a driver of some class     *)
(* with some options on some backing file, then a second one of the same   *)
(* class and options on the file the first one left.                       *)
(***************************************************************************)
Classes == {"memory", "json", "bson", "yaml"}

\* the base classes whose checkOptions is in the sources
ConstructVariants == {"lib", "p002"}

GivenTypes == {"undefined", "json", "sql"}
GivenPaths == {Undef, Str(<< "db" >>), URL("cwd", << "db" >>)}
GivenSizes == {Undef, Num(0 - 1), Num(MaxCap)}

GivenOptions ==
  {[type |-> t, path |-> p, size |-> s] : t \in GivenTypes, p \in GivenPaths, s \in GivenSizes}

\* bytes that no parser reads
Garbage == [enc |-> "garbage", doc |-> Undef]

\* the backing file before the construction
Files == {NoFile, EmptyJsonText, JSON_stringify(T_ab), BSON_serialize(T_ab),
          YAML_stringify(T_a), Garbage}

InitConstruct ==
  /\ variant \in ConstructVariants
  /\ kind \in Classes
  /\ given \in GivenOptions
  /\ codec \in BOOLEAN
  /\ file \in Files
  /\ capacity = 0 /\ cache = << >> /\ csize = 0
  /\ options = NoOptions
  /\ last = [op |-> "idle", key |-> NoKey, val |-> Undef, res |-> "ok"]
  /\ pend = NoPend
  /\ fresh = NoFresh
  /\ derived = NoDerived
  /\ store = NoStore
  /\ PathIdle

ConstructDone(made) ==
  /\ cache' = made.w.cache
  /\ csize' = made.w.csize
  /\ file' = made.w.file
  /\ options' = made.options
  /\ capacity' = IF made.res = "ok" THEN made.options.size.v ELSE 0
  /\ last' = [op |-> "new", key |-> NoKey, val |-> Undef, res |-> made.res]
  /\ UNCHANGED <<variant, kind, given, codec, pend, fresh, derived, pvars, store>>

\* new Driver(given)
Construct ==
  /\ last.op = "idle"
  /\ ConstructDone(construct(variant, kind, given, codec, file))

\* new Driver(given) once more, on the file as it is now
ConstructAgain ==
  /\ last.op = "new"
  /\ last.res = "ok"
  /\ fresh = NoFresh
  /\ fresh' = Loaded(construct(variant, kind, given, codec, file))
  /\ UNCHANGED <<variant, kind, capacity, cache, csize, file, last, pend, pvars, cvars, derived, store>>

NextConstruct ==
  \/ Construct
  \/ ConstructAgain

SpecConstruct == InitConstruct /\ [][NextConstruct]_vars

(***************************************************************************)
(* Properties.                                                             *)
(***************************************************************************)
\* checkOptions threw: the construction ended before the load
OptionsRefused == last.res \in {"InvalidOptions", "TypeError"}

\* the driver after the step
W_next == World(cache', csize', file')

\* the entries of a Map as a set of key -> value pairs
Pairs(m) == {<< m[i].k, m[i].v >> : i \in 1..Len(m)}

\* p is a strict path prefix of q
StrictPrefix(p, q) ==
  /\ Len(p) < Len(q)
  /\ SubSeq(q, 1, Len(p)) = p
  /\ q[Len(p) + 1] \in {".", "["}

NoPrefixConflict(m) ==
  \A i \in 1..Len(m), j \in 1..Len(m) : ~StrictPrefix(m[i].k, m[j].k)

\* the backing file decodes to the nested tree of all entries of the Map
FileHolds(k, c, f) ==
  /\ toJSON(c).ok
  /\ parse(k, f).ok
  /\ parse(k, f).tree = Serializable(toJSON(c).tree)

FileHoldsAll == FileHolds(kind, cache, file)

\* a path segment: a name, optionally followed by one non-negative bracket index
NameChar(c) == c \notin {".", "[", "]", "-"}

WellFormedSegment(seg) ==
  IF Includes(seg, "[")
    THEN /\ IndexOf(seg, "[") > 0
         /\ \A i \in 1..IndexOf(seg, "[") : NameChar(seg[i])
         /\ seg[Len(seg)] = "]"
         /\ AllDigits(SubSeq(seg, IndexOf(seg, "[") + 2, Len(seg) - 1))
    ELSE /\ seg # << >>
         /\ \A i \in 1..Len(seg) : NameChar(seg[i])

WellFormed(path) == \A i \in 1..Len(Split(path)) : WellFormedSegment(Split(path)[i])

\* C1: a driver with capacity c > 0 that starts empty never holds more than
\* c entries, whatever set, setMany, del and clear calls were made.
C1_SizeWithinCapacity == capacity > 0 => size(variant, W) <= capacity

\* C2: a set on a key that is present succeeds, also at capacity: it replaces
\* the value and leaves size() as it was.
C2_OverwriteSucceeds ==
  [][\A key \in Keys, value \in Values :
       (Set(key, value) /\ has(W, key))
         => /\ last'.res = "ok"
            /\ get(W_next, key) = value
            /\ size(variant, W_next) = size(variant, W)]_vars

\* C3: with capacity c > 0 and size() >= c, a set of a key that is not present
\* fails with CapacityExceeded and leaves the Map as it was, order included.
C3_NewKeyRejectedAtCapacity ==
  [][\A key \in Keys, value \in Values :
       (Set(key, value) /\ capacity > 0 /\ size(variant, W) >= capacity
          /\ ValidString(key) /\ ~has(W, key))
         => (last'.res = "CapacityExceeded" /\ cache' = cache)]_vars

\* C4: a Map without prefix-conflicting keys that was flushed and is then
\* loaded by a new driver comes back with the same key -> value pairs.
C4_RoundTrip ==
  (fresh.res # "none" /\ last.op = "flush" /\ last.res = "ok" /\ NoPrefixConflict(cache))
    => (fresh.res = "ok" /\ Pairs(fresh.cache) = Pairs(cache))

\* C5: when a set on a persistent driver has succeeded, the backing file
\* decodes to the nested tree of all entries of the Map.
C5_SetFlushesAll == (last.op = "set" /\ last.res = "ok") => FileHoldsAll

C7_PathIdempotence == (pc = "read" /\ WellFormed(ppath)) => pout = pval

C10_WritesReadBack ==
  [][/\ (last'.op = "set" /\ last'.res = "ok")
          => /\ get(W_next, last'.key) = last'.val
             /\ has(W_next, last'.key)
             /\ Cardinality({i \in 1..Len(cache') : cache'[i].k = last'.key}) = 1
             /\ size(variant, W_next)
                  = size(variant, W) + (IF has(W, last'.key) THEN 0 ELSE 1)
     /\ last'.op \in {"set", "del"}
          => \A k \in Keys \ {last'.key, NotAString} :
               get(W_next, k) = get(W, k) /\ has(W_next, k) = has(W, k)]_vars

\* C10 witness: a successful set has overwritten the first of two entries
\* (a new key would have been appended) and is read back.
C10_Witness ==
  /\ last.op = "set" /\ last.res = "ok"
  /\ Len(cache) >= 2
  /\ cache[1].k = last.key
  /\ get(W, last.key) = last.val
  /\ last.val = Num(2)

\* C11: del(key) returns true exactly when the key was present; afterwards
\* has(key) is false and get(key) is absent, and every other entry is as it
\* was, in the same order.
C11_DeleteRemovesOnlyKey ==
  [][(last'.op = "del" /\ ValidString(last'.key))
       => /\ last'.res \in {"true", "false"}
          /\ (last'.res = "true") <=> has(W, last'.key)
          /\ ~has(W_next, last'.key)
          /\ get(W_next, last'.key) = Undef
          /\ Len(cache') = Len(cache) - (IF has(W, last'.key) THEN 1 ELSE 0)
          /\ \A i \in 1..Len(cache), j \in 1..Len(cache) :
               (i < j /\ cache[i].k # last'.key /\ cache[j].k # last'.key)
                 => \E a \in 1..Len(cache'), b \in 1..Len(cache') :
                      a < b /\ cache'[a] = cache[i] /\ cache'[b] = cache[j]
          /\ \A k \in Keys \ {last'.key, NotAString} :
               get(W_next, k) = get(W, k) /\ has(W_next, k) = has(W, k)]_vars

\* C11 witness: one of the two entries of a bounded driver was deleted, the
\* other is left.
C11_Witness ==
  /\ last.op = "del" /\ last.res = "true"
  /\ Len(cache) = 1
  /\ ~has(W, last.key)
  /\ capacity = MaxCap

C13_IterationIsInsertionOrder ==
  /\ toArray(variant, W).ok
  /\ toArray(variant, W).tree = cache
  /\ Database_all(variant, W).tree = cache

\* C14: when the options are accepted, constructing a persistent driver on
\* a file that exists and does not decode in its format fails with
\* CorruptStore and yields no driver; a constructed driver holds what the
\* file decodes to when it is persistent and the file exists, and is empty
\* otherwise.
C14_LoadAtConstruction ==
  (last.op = "new" /\ ~OptionsRefused)
    => /\ (kind # "memory" /\ file.enc # "absent" /\ ~parse(kind, file).ok)
            => (last.res = "CorruptStore" /\ cache = << >> /\ options = NoOptions)
       /\ (last.res = "ok" /\ (kind = "memory" \/ file.enc = "absent"))
            => cache = << >>
       /\ (last.res = "ok" /\ kind # "memory" /\ file.enc # "absent")
            => /\ parse(kind, file).ok
               /\ cache = ReadKeys(parse(kind, file).tree, ForIn(parse(kind, file).tree), << >>)

\* C14 witness: a JsonDriver was constructed on a file that is no JSON text
\* and the constructor threw CorruptStore.
C14_Witness ==
  /\ last.op = "new" /\ last.res = "CorruptStore"
  /\ kind = "json" /\ file = Garbage
  /\ cache = << >>

\* C15: with the 'bson' module missing, constructing a BsonDriver with
\* accepted options fails with DependencyMissing, whether or not the backing
\* file exists.
C15_DependencyMissing ==
  (last.op = "new" /\ kind = "bson" /\ ~codec /\ ~OptionsRefused)
    => last.res = "DependencyMissing"

\* C16: after a persistent driver was constructed where no file existed and
\* before any write, the backing file decodes in the driver's format to {},
\* and a second construction of the same class on it succeeds with an empty
\* Map.
C16_FreshFileIsEmptyObject ==
  last.op = "new"
    => /\ parse(kind, file).ok
       /\ parse(kind, file).tree = EmptyObj
       /\ fresh.res # "none" => (fresh.res = "ok" /\ fresh.cache = << >>)

\* C17: constructing a driver with a kind outside {memory, json, yaml, bson,
\* custom, auto} or with a negative capacity fails with InvalidOptions, no
\* file is read or created, and there is no driver.
C17_InvalidOptionsRejected ==
  [][(last.op = "idle" /\ last'.op = "new" /\ codec
        /\ (given.type \notin validTypes \cup {"undefined"} \/ given.size = Num(0 - 1)))
       => /\ last'.res = "InvalidOptions"
          /\ options' = NoOptions
          /\ cache' = << >>
          /\ file' = file]_vars

\* C18: a driver of class K constructed without a path uses the backing path
\* <cwd>/erfdb.K, so that drivers of different persistent classes use
\* different files.
C18_DefaultPathByKind ==
  (last.op = "new" /\ last.res = "ok" /\ given.path = Undef)
    => options.path = Resolve(Str(DefaultName(kind)))

\* C19: map(callback) returns a new driver of the class of the source that
\* holds exactly the entries of the source for which the callback returns
\* true, in their order, also when the backing file of the source exists.
C19_DerivedHoldsMatching ==
  last.op = "map"
    => /\ derived.res = "ok"
       /\ derived.kind = kind
       /\ derived.cache = SelectSeq(cache, LAMBDA e : callback(derived.pred, e.v, e.k))

\* C20: map(callback) leaves the source as it was: the same entries in the
\* same order, and the same content of the backing file.
C20_MapLeavesSource ==
  [][(derived = NoDerived /\ derived' # NoDerived)
       => (cache' = cache /\ csize' = csize /\ file' = file)]_vars

\* C20 witness: map returned a driver with one of the two entries of a
\* persistent source whose backing file exists.
C20_Witness ==
  /\ last.op = "map" /\ derived.res = "ok"
  /\ kind # "memory" /\ file.enc # "absent"
  /\ Len(cache) = 2
  /\ Len(derived.cache) = 1

\* C21: destroy() returns a boolean and never throws, for every class of
\* driver and at every call.
C21_DestroyNeverThrows == last.op = "destroy" => last.res \in {"true", "false"}

\* C22: destroy() of a persistent driver returns true exactly when the file
\* is absent when the call returns (also when it was absent before the call);
\* destroy() of the plain MemoryDriver returns false.
C22_DestroyTrueIffAbsent ==
  last.op = "destroy"
    => IF kind = "memory" THEN last.res = "false"
       ELSE (last.res = "true") <=> (file = NoFile)

\* C23: destroy() leaves the Map as it was, and the next successful set on
\* the same persistent driver leaves a file that holds the whole current Map.
C23_DestroyNotClosed ==
  [][/\ last'.op = "destroy" => cache' = cache
     /\ (last.op = "destroy" /\ last'.op = "set" /\ last'.res = "ok")
          => FileHolds(kind, cache', file')]_vars

(***************************************************************************)
(* Two drivers of one class on one file.  `cache` is the Map of the first, *)
(* `fresh.cache` the Map of the second, constructed after the first on the *)
(* same path; `file` is the file they share.  last.op is "set" for a set   *)
(* of the first driver and "setOther" for a set of the second.             *)
(***************************************************************************)
SharedConfigs == {<<"lib", "json">>, <<"p002", "json">>}

InitShared ==
  /\ \E c \in SharedConfigs : variant = c[1] /\ kind = c[2]
  /\ capacity = MaxCap
  /\ Created(MemoryDriver_new(variant, kind, NoFile))
  /\ fresh = Loaded(MemoryDriver_new(variant, kind, file))
  /\ last = [op |-> "new", key |-> NoKey, val |-> Undef, res |-> "ok"]
  /\ pend = NoPend
  /\ derived = NoDerived
  /\ store = NoStore
  /\ Constructed
  /\ PathIdle

SharedDone(op, key, value, first, other, o) ==
  /\ cache' = first
  /\ fresh' = [res |-> "ok", cache |-> other]
  /\ file' = o.w.file
  /\ last' = [op |-> op, key |-> key, val |-> value, res |-> o.res]
  /\ UNCHANGED <<variant, kind, capacity, csize, pend, derived, pvars, cvars, store>>

SetFirstDone(key, value, o) == SharedDone("set", key, value, o.w.cache, fresh.cache, o)

SetOtherDone(key, value, o) == SharedDone("setOther", key, value, cache, o.w.cache, o)

\* set(key, value) on the first driver
SetFirst(key, value) ==
  SetFirstDone(key, value, MemoryDriver_set(variant, kind, capacity, W, key, value))

\* set(key, value) on the second driver
SetOther(key, value) ==
  SetOtherDone(key, value,
               MemoryDriver_set(variant, kind, capacity,
                                World(fresh.cache, csize, file), key, value))

\* the first driver stores 1 and the second 2
NextShared ==
  \/ \E key \in Keys : SetFirst(key, Num(1))
  \/ \E key \in Keys : SetOther(key, Num(2))

SpecShared == InitShared /\ [][NextShared]_vars

\* C24: when two persistent drivers share a file, the file holds the tree
\* of the whole Map of the driver that did the most recent successful set.
C24_LastWriterWins ==
  /\ (last.op = "set" /\ last.res = "ok") => FileHolds(kind, cache, file)
  /\ (last.op = "setOther" /\ last.res = "ok") => FileHolds(kind, fresh.cache, file)

(***************************************************************************)
(* The Database class on an in-memory driver.  `store` names the copy of   *)
(* the class: "current" (the one the current Validator fits), "p005b" and  *)
(* "p004" (two historical ones); `cache` is the Map of its driver.  A      *)
(* result is [res, val, w]: the error thrown or "ok", the value returned,  *)
(* and the driver after the call.                                          *)
(***************************************************************************)
Returned(r, val, w) == [res |-> r, val |-> val, w |-> w]

IsNum(x) == x.t = "num"

\* the operators Validator.stringInput('+', '-', '*', '**', '%', '/') accepts
MathOperators == {"+", "-", "*", "**", "%", "/"}

\* count: number = 1
DefaultCount(count) == IF count = Undef THEN 1 ELSE count.v

\* s.number().greaterThan(1).parse(count) of @sapphire/shapeshift: count > 1
greaterThan(n, count) == count > n

\* the JavaScript remainder has the sign of the dividend
Rem(a, b) == IF a >= 0 THEN a % b ELSE 0 - ((0 - a) % b)

\* the switch of math, for the operators that keep integers integers
Compute(op, a, b) ==
  CASE op = "+" -> a + b
    [] op = "-" -> a - b
    [] op = "*" -> a * b
    [] OTHER -> Rem(a, b)

\* if (!negative && data < 0) data = 0
Clamp0(negative, n) == IF ~negative /\ n < 0 THEN 0 ELSE n

\* this.set(key, data); return data
math_return(s, n) == Returned(s.res, IF s.res = "ok" THEN Num(n) ELSE Undef, s.w)

math_store(v, k, cap, w, key, n) ==
  math_return(MemoryDriver_set(v, k, cap, w, key, Num(n)), n)

\* data = this.get(key); Validator.number(data); the switch, the clamp, the set
math_compute(v, k, cap, w, key, op, count, negative) ==
  IF ~IsNum(get(w, key)) THEN Returned("ValidationError", Undef, w)
  ELSE math_store(v, k, cap, w, key, Clamp0(negative, Compute(op, get(w, key).v, count)))

\* after if (!this.has(key)) this.set(key, 0)
math_absent(v, k, cap, s, key, op, count, negative) ==
  IF s.res # "ok" THEN Returned(s.res, Undef, s.w)
  ELSE math_compute(v, k, cap, s.w, key, op, count, negative)

\* Database.math(key, operator, count, negative); the three copies agree
Database_math(v, k, cap, w, key, op, count, negative) ==
  IF op \notin MathOperators THEN Returned("ValidationError", Undef, w)
  ELSE IF ~greaterThan(1, DefaultCount(count)) THEN Returned("ValidationError", Undef, w)
  ELSE IF ~has(w, key)
    THEN math_absent(v, k, cap, MemoryDriver_set(v, k, cap, w, key, Num(0)),
                     key, op, DefaultCount(count), negative)
  ELSE math_compute(v, k, cap, w, key, op, DefaultCount(count), negative)

\* pattern.split(':')
RECURSIVE SplitColon(_)
SplitColon(s) ==
  IF IndexOf(s, ":") = -1 THEN << s >>
  ELSE << SubSeq(s, 1, IndexOf(s, ":")) >> \o SplitColon(SubSeq(s, IndexOf(s, ":") + 2, Len(s)))

PatternTypes == {<< "k" >>, << "k", "e", "y" >>, << "v" >>, << "v", "a", "l", "u", "e" >>}

\* /^(k|key|v|value):\d+$/ matches the pattern
MatchesPattern(parts) ==
  /\ Len(parts) = 2
  /\ parts[1] \in PatternTypes
  /\ AllDigits(parts[2])

\* keys[index] / values[index] of the arrays Database.toArray() built
Element(type, arr, index) ==
  IF index >= Len(arr) THEN Undef
  ELSE IF type[1] = "k" THEN Str(arr[index + 1].k)
  ELSE arr[index + 1].v

\* Database.toArray(): driver.toSet(), a Set of driver.toArray(); the
\* historical Database.array(): driver.array()
Database_toArray(d, v, w) == IF d = "p004" THEN array_p004(w) ELSE toArray(v, w)

\* the bounds that at() validates the index against; \d+ is never negative
\* nor fractional, so only the upper bound of the current copy can fail
IndexAccepted(d, v, w, index) == IF d = "current" THEN index <= size(v, w) ELSE TRUE

at_index(d, v, w, type, arr, index) ==
  IF ~arr.ok THEN Returned(arr.err, Undef, w)
  ELSE IF ~IndexAccepted(d, v, w, index) THEN Returned("ValidationError", Undef, w)
  ELSE Returned("ok", Element(type, arr.tree, index), w)

at_parts(d, v, w, parts) ==
  IF ~MatchesPattern(parts) THEN Returned("ValidationError", Undef, w)
  ELSE at_index(d, v, w, parts[1], Database_toArray(d, v, w), DigitsValue(parts[2]))

\* Database.at(pattern)
Database_at(d, v, w, pattern) == at_parts(d, v, w, SplitColon(pattern))

\* Database.all(): a Set of driver.toArray(); the historical
\* Array.from(this).map(([key, value]) => ({ key, value }))
Database_all_p004(w) == Ok(w.cache)

all(d, v, w) == IF d = "p004" THEN Database_all_p004(w) ELSE Database_all(v, w)

\* the callbacks tried: "read" touches nothing, "set" calls db.set('r[0]', 2),
\* "del" calls db.del('a.b'), "clear" calls db.clear(), and "sweep" is the
\* callback of sweep(() => true): this.del(key) of the entry visited
Callbacks == {"read", "set", "del", "clear"}

Effect(cb, v, k, cap, w, e) ==
  CASE cb = "read" -> Outcome("ok", w)
    [] cb = "set" -> MemoryDriver_set(v, k, cap, w, K_r0, Num(2))
    [] cb = "del" -> Outcome("ok", MemoryDriver_del(v, w, K_ab).w)
    [] cb = "clear" -> Outcome("ok", MemoryDriver_clear(v, w))
    [] OTHER -> Outcome("ok", MemoryDriver_del(v, w, e.k).w)

\* what the for..of of each() walks: the collection that all() returned
\* before the first callback, whatever the driver holds by now
Iterated_live(snap, w) == w.cache

Iterated(snap, w) == snap

Visited(r, seen, w) == [res |-> r, seen |-> seen, w |-> w]

RECURSIVE eachLoop(_, _, _, _, _, _, _, _)
\* a throw of the callback ends the loop
eachStep(v, k, cap, snap, i, cb, seen, o) ==
  IF o.res # "ok" THEN Visited(o.res, seen, o.w)
  ELSE eachLoop(v, k, cap, snap, i + 1, o.w, cb, seen)

eachLoop(v, k, cap, snap, i, w, cb, seen) ==
  IF i > Len(Iterated(snap, w)) THEN Visited("ok", seen, w)
  ELSE eachStep(v, k, cap, snap, i, cb, Append(seen, Iterated(snap, w)[i]),
                Effect(cb, v, k, cap, w, Iterated(snap, w)[i]))

eachFrom(v, k, cap, snap, w, cb) ==
  IF ~snap.ok THEN Visited(snap.err, << >>, w)
  ELSE eachLoop(v, k, cap, snap.tree, 1, w, cb, << >>)

\* Database.each(callback)
Database_each(d, v, k, cap, w, cb) == eachFrom(v, k, cap, all(d, v, w), w, cb)

\* Database.sweep(() => true): size - this.size after the each
sweep_return(v, n, r) ==
  Returned(r.res, IF r.res = "ok" THEN Num(n - size(v, r.w)) ELSE Undef, r.w) @@ [seen |-> r.seen]

Database_sweep(d, v, k, cap, w) ==
  sweep_return(v, size(v, w), Database_each(d, v, k, cap, w, "sweep"))

\* the largest magnitude of a number that the model lets math() store
MaxNum == 5

StoreConfigs == {<<"current", "lib">>, <<"p005b", "lib">>, <<"p004", "p004b">>}

StoreKeys == {K_a, K_ab}

\* the operand of math(): left out, 1 or 5
Counts == {Undef, Num(1), Num(5)}

\* four of the operators and a string that is none
Operators == {"+", "-", "*", "%", "^"}

P_k0 == << "k", ":", "0" >>
P_v1 == << "v", ":", "1" >>
P_key2 == << "k", "e", "y", ":", "2" >>
P_value3 == << "v", "a", "l", "u", "e", ":", "3" >>
P_x0 == << "x", ":", "0" >>
Patterns == {P_k0, P_v1, P_key2, P_value3, P_x0}

InitDatabase ==
  /\ \E c \in StoreConfigs : store = c[1] /\ variant = c[2]
  /\ kind = "memory"
  /\ capacity \in Capacities
  /\ Created(MemoryDriver_new(variant, kind, NoFile))
  /\ last = [op |-> "new", key |-> NoKey, val |-> Undef, res |-> "ok"]
  /\ pend = NoPend
  /\ fresh = NoFresh
  /\ derived = NoDerived
  /\ Constructed
  /\ PathIdle

Small(val) == IF val = Undef THEN TRUE ELSE IF val.v > MaxNum THEN FALSE ELSE val.v >= 0 - MaxNum

MathDone(key, op, count, negative, r) ==
  /\ Small(r.val)
  /\ Apply(r.w)
  /\ pend' = NoPend
  /\ last' = [op |-> "math", key |-> key, val |-> r.val, res |-> r.res, operator |-> op,
              count |-> count, negative |-> negative, before |-> get(W, key)]

\* math(key, operator, count, negative)
Math(key, op, count, negative) ==
  /\ Room(key)
  /\ MathDone(key, op, count, negative,
              Database_math(variant, kind, capacity, W, key, op, count, negative))

AtDone(pattern, r) ==
  /\ Apply(r.w)
  /\ pend' = NoPend
  /\ last' = [op |-> "at", key |-> pattern, val |-> r.val, res |-> r.res]

\* at(pattern)
At(pattern) == AtDone(pattern, Database_at(store, variant, W, pattern))

EachDone(op, cb, val, r) ==
  /\ Apply(r.w)
  /\ pend' = NoPend
  /\ last' = [op |-> op, key |-> NoKey, val |-> val, res |-> r.res, callback |-> cb,
              before |-> cache, seen |-> r.seen]

\* each(callback)
Each(cb) ==
  /\ IF cb = "set" THEN Room(K_r0) ELSE TRUE
  /\ EachDone("each", cb, Undef, Database_each(store, variant, kind, capacity, W, cb))

SweepDone(r) == EachDone("sweep", "sweep", r.val, r)

\* sweep(() => true)
Sweep == SweepDone(Database_sweep(store, variant, kind, capacity, W))

\* the arrays of the model hold at most MaxElems elements
MaxElems == 2

\* data.push(value) / data.splice(index, 1) on the array that get() returned:
\* it is the array the map holds, so the entry changes with it
InPlace(w, key, data) == World(MapSet(w.cache, key, data), w.csize, w.file)

\* this.set(key, data); return data
push_return(s, data) == Returned(s.res, IF s.res = "ok" THEN data ELSE Undef, s.w)

push_store(v, k, cap, w, key, data) ==
  push_return(MemoryDriver_set(v, k, cap, InPlace(w, key, data), key, data), data)

\* Database.push(key, value)
Database_push(v, k, cap, w, key, value) ==
  IF get(w, key).t # "arr"
    THEN push_return(MemoryDriver_set(v, k, cap, w, key, Arr(<< value >>, << >>)),
                     Arr(<< value >>, << >>))
    ELSE push_store(v, k, cap, w, key, Arr(get(w, key).el \o << value >>, << >>))

\* data.indexOf(value), counted from 1; 0 when value is not an element
RECURSIVE indexOf(_, _, _)
indexOf(el, value, i) ==
  IF i > Len(el) THEN 0 ELSE IF el[i] = value THEN i ELSE indexOf(el, value, i + 1)

\* data.splice(index, 1)
splice(el, i) == SubSeq(el, 1, i - 1) \o SubSeq(el, i + 1, Len(el))

\* Database.pull(key, value)
Database_pull(v, k, cap, w, key, value) ==
  IF get(w, key).t # "arr" THEN Returned("ok", Undef, w)
  ELSE IF indexOf(get(w, key).el, value, 1) = 0 THEN Returned("ok", get(w, key), w)
  ELSE push_store(v, k, cap, w, key,
                  Arr(splice(get(w, key).el, indexOf(get(w, key).el, value, 1)), << >>))

PushDone(op, key, value, r) ==
  /\ Apply(r.w)
  /\ pend' = NoPend
  /\ last' = [op |-> op, key |-> key, val |-> r.val, res |-> r.res, pushed |-> value,
              before |-> get(W, key)]

\* push(key, value)
Push(key, value) ==
  /\ Room(key)
  /\ IF get(W, key).t = "arr" THEN Len(get(W, key).el) < MaxElems ELSE TRUE
  /\ PushDone("push", key, value, Database_push(variant, kind, capacity, W, key, value))

\* pull(key, value)
Pull(key, value) ==
  PushDone("pull", key, value, Database_pull(variant, kind, capacity, W, key, value))

NextDatabase ==
  \/ \E key \in StoreKeys : Set(key, Num(1))
  \/ \E key \in StoreKeys : Del(key)
  \/ Push(K_a, Num(1))
  \/ Pull(K_a, Num(1))
  \/ \E op \in Operators, count \in Counts, negative \in BOOLEAN : Math(K_a, op, count, negative)
  \/ \E pattern \in Patterns : At(pattern)
  \/ \E cb \in Callbacks : Each(cb)
  \/ Sweep

SpecDatabase == InitDatabase /\ [][NextDatabase]_vars

\* C25: an iteration of the Database (each, sweep) that returns has visited
\* exactly the entries that were present when it started, in their order
\* then, whatever its callback did to the Database meanwhile.
C25_SnapshotIsolation ==
  (last.op \in {"each", "sweep"} /\ last.res = "ok") => last.seen = last.before

\* each(() => db.clear()) on two entries: both are visited, none is left
C25_Witness ==
  /\ last.op = "each" /\ last.res = "ok" /\ last.callback = "clear"
  /\ Len(last.before) = 2 /\ Len(last.seen) = 2 /\ cache = << >>

\* the number a key holds for math(): 0 when it is absent
Current(before) == IF before = Undef THEN 0 ELSE before.v

\* (current operator operand), a negative result replaced by 0 unless
\* negative results are allowed
Expected(before, op, operand, allowNegative) ==
  IF ~allowNegative /\ Compute(op, Current(before), operand) < 0 THEN 0
  ELSE Compute(op, Current(before), operand)

MathHolds(operand) ==
  /\ last.res = "ok"
  /\ last.val = Num(Expected(last.before, last.operator, operand, last.negative))
  /\ get(W, last.key) = last.val

\* math() was called with one of its operators on a Database without a
\* capacity limit, for a key that is absent or holds a number
MathCalled == last.op = "math" /\ last.operator \in MathOperators /\ capacity = 0

\* C26: math(key, operator, operand, allowNegative) takes an absent key as
\* 0, computes (current operator operand), replaces a negative result by 0
\* unless allowNegative, stores the result under key and returns it.
C26_MathClamps == (MathCalled /\ last.count # Undef) => MathHolds(last.count.v)

\* C27: math(key, operator) without an operand succeeds and returns
\* (current operator 1) after the clamp.
C27_MathDefaultOperand == (MathCalled /\ last.count = Undef) => MathHolds(1)

\* the entries in the order of insertion, the snapshot order
Snapshot(type, index) ==
  IF index >= Len(cache) THEN Undef
  ELSE IF type[1] = "k" THEN Str(cache[index + 1].k)
  ELSE cache[index + 1].v

\* C28: at(pattern) with a pattern that matches ^(k|key|v|value):\d+$ returns
\* the key or value at that index of the snapshot order, and undefined,
\* without throwing, for every index >= size().
C28_AtOutOfRangeIsUndefined ==
  (last.op = "at" /\ MatchesPattern(SplitColon(last.key)))
    => /\ last.res = "ok"
       /\ last.val = Snapshot(SplitColon(last.key)[1], DigitsValue(SplitColon(last.key)[2]))

\* the text between the bracket at place i of a path and the next closing
\* bracket (or the end of the path)
IndexText(p, i) ==
  IF \E j \in (i + 1)..Len(p) : p[j] = "]"
    THEN SubSeq(p, i + 1, (CHOOSE j \in (i + 1)..Len(p) : p[j] = "]" /\ \A h \in (i + 1)..(j - 1) : p[h] # "]") - 1)
    ELSE SubSeq(p, i + 1, Len(p))

\* the path is empty, or one of its bracket indices is no non-negative integer
InvalidPath(p) ==
  IF p = << >> THEN TRUE ELSE \E i \in 1..Len(p) : p[i] = "[" /\ ~AllDigits(IndexText(p, i))

\* the path starts with name[i], and the tree written to has no such name
GrowsFrom(p, name, i) ==
  /\ Len(p) >= Len(name) + 3
  /\ SubSeq(p, 1, Len(name) + 3) = name \o << "[", NumToStr(i)[1], "]" >>
  /\ ~HasOwn(ptree, name)

Grown(name, i) ==
  /\ PropGet(pres.tree, name).t = "arr"
  /\ Len(PropGet(pres.tree, name).el) >= i + 1
  /\ \A j \in 1..i : PropGet(pres.tree, name).el[j] = EmptyObj

\* C29: a write on a segment name[i] leaves under name a sequence of at
\* least i + 1 slots whose gap slots below i hold an empty mapping.
C29_ArrayGrowthFillsGaps ==
  \A name \in {<< "a" >>, << "r" >>}, i \in 0..2 :
    (pc = "written" /\ pres.ok /\ GrowsFrom(ppath, name, i)) => Grown(name, i)

\* C30: a write fails with InvalidPath when the path is empty or one of its
\* bracket indices, in an intermediate or in the final segment, is no
\* non-negative integer.
C30_InvalidPathRejected ==
  (pc = "written" /\ InvalidPath(ppath)) => (~pres.ok /\ pres.err = "InvalidPath")

\* the value that a well-formed path names in a tree, a segment name[i]
\* being the slot i of the sequence under name; undefined when a segment is
\* absent, when the node it is looked up in is null or a scalar, or when an
\* index is past the end
RECURSIVE Lookup(_, _, _)
LookupSlot(x, seg) ==
  IF ~Includes(seg, "[") THEN x
  ELSE IF x.t # "arr" THEN Undef
  ELSE IF ArrayIndex(seg).n >= Len(x.el) THEN Undef
  ELSE x.el[ArrayIndex(seg).n + 1]

LookupName(seg) == IF Includes(seg, "[") THEN ArrayKey(seg) ELSE seg

Lookup(node, segs, i) ==
  IF i > Len(segs) THEN node
  ELSE IF ~IsObject(node) THEN Undef
  ELSE Lookup(LookupSlot(PropGet(node, LookupName(segs[i])), segs[i]), segs, i + 1)

Missing(tree, path) == WellFormed(path) /\ Lookup(tree, Split(path), 1) = Undef

\* C31: a read never throws, and it returns undefined for a path that is
\* merely missing from the tree: a segment absent, null or a scalar on the
\* way, an index past the end.
C31_ReadMissingIsUndefined ==
  pc = "probed" => (pout # Thrown /\ (Missing(pres.tree, ppath) => pout = Undef))

\* the read of 'a.b' from a tree whose 'a' is null
C31_Witness ==
  /\ pc = "probed" /\ ppath = P_ab /\ PropGet(pres.tree, << "a" >>) = Null
  /\ Missing(pres.tree, ppath) /\ pout = Undef

\* what the claim says a merge gives: a mapping of the source is merged key
\* by key into the mapping of the target (into an empty one when the target
\* holds none), a sequence of the source is appended to the sequence of the
\* target, and anything else replaces what the target holds
RECURSIVE Merged(_, _)
MergedValue(tv, sv) ==
  IF sv.t = "obj" THEN Merged(IF tv.t = "obj" THEN tv ELSE EmptyObj, sv)
  ELSE IF sv.t = "arr" THEN Arr((IF tv.t = "arr" THEN tv.el ELSE << >>) \o sv.el, << >>)
  ELSE sv

MergedNew(t, s) == SelectSeq(s.kv, LAMBDA e : ~KvHas(t.kv, e.k))

Merged(t, s) ==
  Obj([i \in 1..Len(t.kv) |->
         IF KvHas(s.kv, t.kv[i].k)
           THEN [k |-> t.kv[i].k, v |-> MergedValue(t.kv[i].v, KvGet(s.kv, t.kv[i].k))]
           ELSE t.kv[i]]
      \o [i \in 1..Len(MergedNew(t, s)) |->
            [k |-> MergedNew(t, s)[i].k, v |-> MergedValue(Undef, MergedNew(t, s)[i].v)]])

\* C32: merge(target, s1, s2) is the target with s1 and then s2 merged into
\* it: mappings key by key, sequences appended, scalars replaced; it equals
\* merging s1 and s2 one call at a time.
C32_MergeLeftToRight ==
  pc = "merged"
    => /\ pres.tree = Merged(Merged(ptree, pval.el[1]), pval.el[2])
       /\ pres.tree = merge(plib, merge(plib, ptree, << pval.el[1] >>), << pval.el[2] >>)

\* merge({a: {b: 1}}, {a: {c: 2}}, {r: [2]}): the second source is applied
\* after the nested mappings were merged
C32_Witness ==
  /\ pc = "merged" /\ ptree = T_ab /\ pval.el = << S_ac, S_r2 >>
  /\ PropGet(PropGet(pres.tree, << "a" >>), << "b" >>) = Num(1)
  /\ PropGet(PropGet(pres.tree, << "a" >>), << "c" >>) = Num(2)
  /\ PropGet(pres.tree, << "r" >>) = Arr(<< Num(2) >>, << >>)

\* the leaves of a decoded tree with their full paths: a key of a mapping
\* is joined to the path with a dot, an index of a sequence is appended in
\* brackets
RECURSIVE Leaves(_, _)
LeafName(prefix, name) == IF prefix = << >> THEN name ELSE prefix \o << "." >> \o name
LeafIndex(prefix, i) == prefix \o << "[" >> \o NumToStr(i - 1) \o << "]" >>

Leaves(prefix, node) ==
  IF node.t = "obj"
    THEN UNION {Leaves(LeafName(prefix, node.kv[i].k), node.kv[i].v) : i \in 1..Len(node.kv)}
  ELSE IF node.t = "arr"
    THEN UNION {Leaves(LeafIndex(prefix, i), node.el[i]) : i \in 1..Len(node.el)}
  ELSE {<< prefix, node >>}

\* C33: a driver constructed on an existing backing file holds exactly one
\* entry per leaf of the decoded tree, keyed by the full path of the leaf
\* and holding its scalar value.
C33_LoadFlattens ==
  fresh.res = "ok" /\ file.enc # "absent" /\ parse(kind, file).ok
    => /\ Pairs(fresh.cache) = Leaves(<< >>, parse(kind, file).tree)
       /\ Len(fresh.cache) = Cardinality(Leaves(<< >>, parse(kind, file).tree))

(***************************************************************************)
(* The flush step by step: write() builds the bytes and hands them to      *)
(* writeFileSync(path, bytes), which opens the path with the flag 'w'      *)
(* (the file is truncated), writes the bytes and closes.  pc is "off"      *)
(* between the calls, "opened" between the open and the write, and         *)
(* "interrupted" once the process was stopped there and started again.     *)
(***************************************************************************)
\* the backing file right after the open: no bytes
Truncated == [enc |-> "truncated", doc |-> Undef]

openSync(w) == World(w.cache, w.csize, Truncated)

\* the drivers whose write() runs and whose set() does not flush
FlushConfigs == {<<"lib", "json">>, <<"p004b", "bson">>}

InitFlush == InitOf(FlushConfigs, Capacities)

\* write() up to the open of the file; a throw while the tree is built ends
\* the call before the file is touched
FlushOpen ==
  /\ pc = "off"
  /\ IF write(variant, kind, W).res = "ok"
       THEN /\ file' = openSync(W).file
            /\ pc' = "opened"
            /\ last' = [op |-> "open", key |-> NoKey, val |-> Undef, res |-> "ok", before |-> file]
            /\ UNCHANGED <<variant, kind, capacity, cache, csize, pend, fresh, derived,
                           plib, ptree, ppath, pval, pres, pout, cvars, store>>
       ELSE /\ Done("flush", NoKey, Undef, write(variant, kind, W))
            /\ pend' = NoPend

\* the bytes are written and the file is closed
FlushWrite ==
  /\ pc = "opened"
  /\ file' = write(variant, kind, W).w.file
  /\ pc' = "off"
  /\ last' = [op |-> "flush", key |-> NoKey, val |-> Undef, res |-> "ok"]
  /\ UNCHANGED <<variant, kind, capacity, cache, csize, pend, fresh, derived,
                 plib, ptree, ppath, pval, pres, pout, cvars, store>>

\* the process stops between the open and the write; a driver of the same
\* class is then constructed on the path
Interrupt ==
  /\ pc = "opened"
  /\ pc' = "interrupted"
  /\ fresh' = Loaded(MemoryDriver_new(variant, kind, file))
  /\ UNCHANGED <<variant, kind, capacity, cache, csize, file, last, pend, derived,
                 plib, ptree, ppath, pval, pres, pout, cvars, store>>

NextFlush ==
  \/ \E key \in Keys : Set(key, Num(1))
  \/ FlushOpen
  \/ FlushWrite
  \/ Interrupt

SpecFlush == InitFlush /\ [][NextFlush]_vars

\* C34: at every step of a flush, and after a flush that was interrupted,
\* the backing file holds the complete content it had before the flush or
\* the complete content the flush writes.
C34_FlushIsAtomic ==
  pc \in {"opened", "interrupted"}
    => file \in {last.before, write(variant, kind, World(cache, csize, last.before)).w.file}

(***************************************************************************)
(* A driver that is constructed again on its backing file: the JSON        *)
(* adapter on the base class that counts its entries in _size, next to     *)
(* the same adapter on the base class of lib/drivers.                      *)
(***************************************************************************)
CountedConfigs == {<<"p003", "memory">>, <<"p003", "json">>, <<"lib", "json">>}

InitCounted == InitOf(CountedConfigs, Capacities)

\* the driver is dropped and new Driver(options) is constructed on the file
Restart ==
  /\ pc = "off"
  /\ kind # "memory"
  /\ MemoryDriver_new(variant, kind, file).res = "ok"
  /\ Done("new", NoKey, Undef, MemoryDriver_new(variant, kind, file))
  /\ pend' = NoPend

NextCounted ==
  \/ \E key \in Keys : Set(key, Num(1))
  \/ \E key \in Keys : Del(key)
  \/ Clear
  \/ Flush
  \/ Restart

SpecCounted == InitCounted /\ [][NextCounted]_vars

FileNames(k, f, path) ==
  /\ f.enc # "absent"
  /\ parse(k, f).ok
  /\ Lookup(parse(k, f).tree, Split(path), 1) # Undef

\* C36: once del(k) has returned true on a persistent driver, the backing
\* file no longer contains k, and a driver constructed on that file does
\* not have k.
C36_DeleteIsPersisted ==
  last.op = "del" /\ last.res = "true" /\ WellFormed(last.key)
    => /\ ~FileNames(kind, file, last.key)
       /\ fresh.res = "ok" => ~MapHas(fresh.cache, last.key)

\* a call of math with an operator and an operand that math accepts, on a
\* key that is absent while the store has room for one more entry
MathOnAbsent ==
  /\ last'.op = "math"
  /\ last'.operator \in MathOperators
  /\ last'.count # Undef
  /\ greaterThan(1, last'.count.v)
  /\ ~has(W, last'.key)
  /\ capacity > 0
  /\ size(variant, W) < capacity

\* C38: on a store with capacity c > 0, math on an absent key called while
\* size() < c succeeds and get(key) is then the value it returned; it does
\* not fail after having inserted the key with the intermediate 0.
C38_MathOnAbsentKeySucceeds ==
  [][MathOnAbsent => (last'.res = "ok" /\ get(W_next, last'.key) = last'.val)]_vars

\* C37: when push or pull throws, the sequence stored under the key is the
\* one that was stored before the call, with the same elements.
C37_FailedPushLeavesSequence ==
  last.op \in {"push", "pull"} /\ last.res # "ok" /\ last.before.t = "arr"
    => get(W, last.key) = last.before

====
